---- MODULE Spec2Model ----
(***************************************************************************)
(* The microphone controller of patterns/media/microphone-process          *)
(* (assets/script.js): a start control whose async click handler asks for  *)
(* the microphone, builds the graph source -> processor -> destination and *)
(* enables the stop control, and a stop control whose click handler stops  *)
(* the tracks of the shared stream.                                        *)
(*                                                                         *)
(* JavaScript runs one task at a time: a handler runs from a click or from *)
(* the settling of the promise it awaits up to its next await (or its      *)
(* end) without interleaving.  Each such run-to-suspension is one action.  *)
(* Several invocations of the async start handler may be in flight at      *)
(* once, since the start control is never disabled.                        *)
(***************************************************************************)
EXTENDS Integers, Sequences, FiniteSets, TLC

\* Bounds of the model.
MaxStarts == 2      \* clicks on the start control
MaxStops == 2       \* clicks on the stop control
MaxTracks == 2      \* tracks of one captured stream
MaxElements == 2    \* lazy elements of a page of the lazy-loading article
MaxQueue == 3       \* intersection entries queued between two callbacks

\* `let stream;` holds undefined until the first grant; streams are 1, 2, ...
Undefined == 0

UsedMsg == "Your microphone audio is being used."
NotUsedMsg == "Your microphone audio is not used anymore."

\* The ways the promise of getUserMedia rejects, and the way addModule does.
GetUserMediaErrors == {"PermissionDenied", "DeviceUnavailable"}
ModuleLoadFailure == "ModuleLoadFailure"

VARIABLES
    stream,         \* the module-level `stream`: Undefined or a stream
    tracks,         \* tracks[s]: how many tracks the host gave stream s
    live,           \* the tracks <<s, t>> that are live (not stopped)
    stopDisabled,   \* stopMicrophoneButton.disabled
    logged,         \* the messages given to log(), in order
    starts,         \* the invocations of the start handler, in click order
    nStops,         \* how many clicks the stop handler has handled
    uncaught,       \* errors that escaped a handler, in order
    \* The pages of the lazy-loading article (one page per specification).
    ioAvailable,    \* "IntersectionObserver" in window
    domLoaded,      \* the DOMContentLoaded listener has run
    inView,         \* inView[e]: element e intersects the viewport
    observed,       \* the observation targets of the page's observer
    reported,       \* reported[e]: what the observer last queued about e
    queue,          \* the observer's queued entries, not yet delivered
    imgs,           \* imgs[e]: class lazy, src and srcset of image e
    visible         \* the backgrounds that have the class visible

micVars == <<stream, tracks, live, stopDisabled, logged, starts, nStops, uncaught>>
lazyVars == <<ioAvailable, domLoaded, inView, observed, reported, queue, imgs, visible>>
vars == <<micVars, lazyVars>>

\* The tracks of stream s: stream.getTracks().
TracksOf(s) == IF s = Undefined THEN {} ELSE {<<s, t>> : t \in 1..tracks[s]}

\* What a Start may change, as it is when the start control is clicked.
Snapshot ==
    [stream |-> stream, live |-> live, stopDisabled |-> stopDisabled,
     logged |-> logged, nStops |-> nStops]

\* The stop control carries the disabled attribute when the page loads.
InitialStopDisabled == TRUE

\* The lazy elements of a page, and the markup of an image: the placeholder
\* in src, the image to load in data-src and data-srcset.
Elements == 1..MaxElements
Placeholder == "placeholder-image.jpg"
DataSrc == "image-to-lazy-load-1x.jpg"
DataSrcset == "image-to-lazy-load-2x.jpg 2x, image-to-lazy-load-1x.jpg 1x"
NoSrcset == ""
LazyImageMarkup == [lazy |-> TRUE, src |-> Placeholder, srcset |-> NoSrcset]

\* script.js as loaded: no stream, nothing logged, no handler invoked.
ControllerInit ==
    /\ stream = Undefined
    /\ tracks = <<>>
    /\ live = {}
    /\ stopDisabled = InitialStopDisabled
    /\ logged = <<>>
    /\ starts = <<>>
    /\ nStops = 0
    /\ uncaught = <<>>

\* A page of the article before DOMContentLoaded, scrolled anywhere, in a
\* browser with or without IntersectionObserver.
PageInit ==
    /\ ioAvailable \in BOOLEAN
    /\ domLoaded = FALSE
    /\ inView \in [Elements -> BOOLEAN]
    /\ observed = {}
    /\ reported = [e \in Elements |-> "none"]
    /\ queue = <<>>
    /\ imgs = [e \in Elements |-> LazyImageMarkup]
    /\ visible = {}

\* The microphone page: the controller, and no lazy-loading script.
Init ==
    /\ ControllerInit
    /\ ioAvailable = TRUE
    /\ domLoaded = FALSE
    /\ inView = [e \in Elements |-> FALSE]
    /\ observed = {}
    /\ reported = [e \in Elements |-> "none"]
    /\ queue = <<>>
    /\ imgs = [e \in Elements |-> LazyImageMarkup]
    /\ visible = {}

\* log(msg)
Log(msg) == logged' = Append(logged, msg)

\* Variant of StartClick that enables the stop control before the first await.
StartClick_EnablesStop ==
    /\ Len(starts) < MaxStarts
    /\ starts' = Append(starts,
          [pc |-> "getUserMedia", permission |-> "pending", module |-> "none",
           source |-> Undefined, connected |-> FALSE, err |-> "none",
           idleAtClick |-> (live = {}), before |-> Snapshot])
    /\ stopDisabled' = FALSE
    /\ UNCHANGED <<stream, tracks, live, logged, nStops, uncaught>>
    /\ UNCHANGED lazyVars

\* A click on the start control: the handler runs up to
\* `await navigator.mediaDevices.getUserMedia({audio: true})`.
StartClick ==
    /\ Len(starts) < MaxStarts
    /\ starts' = Append(starts,
          [pc |-> "getUserMedia", permission |-> "pending", module |-> "none",
           source |-> Undefined, connected |-> FALSE, err |-> "none",
           idleAtClick |-> (live = {}), before |-> Snapshot])
    /\ UNCHANGED <<stream, tracks, live, stopDisabled, logged, nStops, uncaught>>
    /\ UNCHANGED lazyVars

\* Variant of GetUserMediaResolve that connects the graph without awaiting the
\* module.
GetUserMediaResolve_ConnectsEarly(i, n) ==
    /\ starts[i].pc = "getUserMedia"
    /\ LET s == Len(tracks) + 1 IN
        /\ tracks' = Append(tracks, n)
        /\ live' = live \cup {<<s, t>> : t \in 1..n}
        /\ stream' = s
        /\ starts' = [starts EXCEPT ![i].pc = "addModule",
                                    ![i].permission = "granted",
                                    ![i].module = "loading",
                                    ![i].source = s,
                                    ![i].connected = TRUE]
    /\ UNCHANGED <<stopDisabled, logged, nStops, uncaught>>
    /\ UNCHANGED lazyVars

\* The host grants the request of invocation i with a fresh stream of n live
\* tracks; the handler assigns it to `stream`, creates the context and the
\* source node of `stream`, and suspends at `await ...addModule(...)`.
GetUserMediaResolve(i, n) ==
    /\ starts[i].pc = "getUserMedia"
    /\ LET s == Len(tracks) + 1 IN
        /\ tracks' = Append(tracks, n)
        /\ live' = live \cup {<<s, t>> : t \in 1..n}
        /\ stream' = s
        /\ starts' = [starts EXCEPT ![i].pc = "addModule",
                                    ![i].permission = "granted",
                                    ![i].module = "loading",
                                    ![i].source = s]
    /\ UNCHANGED <<stopDisabled, logged, nStops, uncaught>>
    /\ UNCHANGED lazyVars

\* Variant of GetUserMediaReject that runs the rest of the handler's tail and
\* enables the stop control.
GetUserMediaReject_Enables(i, e) ==
    /\ starts[i].pc = "getUserMedia"
    /\ starts' = [starts EXCEPT ![i].pc = "failed",
                                ![i].permission = "rejected",
                                ![i].err = e]
    /\ uncaught' = Append(uncaught, e)
    /\ stopDisabled' = FALSE
    /\ UNCHANGED <<stream, tracks, live, logged, nStops>>
    /\ UNCHANGED lazyVars

\* The request of invocation i is rejected: the await throws, nothing is
\* assigned, and the rejection leaves the handler uncaught.
GetUserMediaReject(i, e) ==
    /\ starts[i].pc = "getUserMedia"
    /\ starts' = [starts EXCEPT ![i].pc = "failed",
                                ![i].permission = "rejected",
                                ![i].err = e]
    /\ uncaught' = Append(uncaught, e)
    /\ UNCHANGED <<stream, tracks, live, stopDisabled, logged, nStops>>
    /\ UNCHANGED lazyVars

\* Variant of AddModuleResolve that forgets to enable the stop control.
AddModuleResolve_NoEnable(i) ==
    /\ starts[i].pc = "addModule"
    /\ starts' = [starts EXCEPT ![i].pc = "done",
                                ![i].module = "loaded",
                                ![i].connected = TRUE]
    /\ Log(UsedMsg)
    /\ UNCHANGED <<stream, tracks, live, stopDisabled, nStops, uncaught>>
    /\ UNCHANGED lazyVars

\* Variant of AddModuleResolve that returns before connecting the graph.
AddModuleResolve_NoConnect(i) ==
    /\ starts[i].pc = "addModule"
    /\ starts' = [starts EXCEPT ![i].pc = "done",
                                ![i].module = "loaded"]
    /\ stopDisabled' = FALSE
    /\ Log(UsedMsg)
    /\ UNCHANGED <<stream, tracks, live, nStops, uncaught>>
    /\ UNCHANGED lazyVars

\* The module of invocation i has loaded: the handler creates the processor,
\* connects source -> processor -> destination, enables the stop control and
\* logs.
AddModuleResolve(i) ==
    /\ starts[i].pc = "addModule"
    /\ starts' = [starts EXCEPT ![i].pc = "done",
                                ![i].module = "loaded",
                                ![i].connected = TRUE]
    /\ stopDisabled' = FALSE
    /\ Log(UsedMsg)
    /\ UNCHANGED <<stream, tracks, live, nStops, uncaught>>
    /\ UNCHANGED lazyVars

\* Variant of AddModuleReject that releases the tracks of `stream` on failure.
AddModuleReject_StopsTracks(i) ==
    /\ starts[i].pc = "addModule"
    /\ starts' = [starts EXCEPT ![i].pc = "failed",
                                ![i].module = "failed",
                                ![i].err = ModuleLoadFailure]
    /\ uncaught' = Append(uncaught, ModuleLoadFailure)
    /\ live' = live \ TracksOf(starts[i].source)
    /\ UNCHANGED <<stream, tracks, stopDisabled, logged, nStops>>
    /\ UNCHANGED lazyVars

\* The module of invocation i fails to load: the await throws and the
\* handler ends there.
AddModuleReject(i) ==
    /\ starts[i].pc = "addModule"
    /\ starts' = [starts EXCEPT ![i].pc = "failed",
                                ![i].module = "failed",
                                ![i].err = ModuleLoadFailure]
    /\ uncaught' = Append(uncaught, ModuleLoadFailure)
    /\ UNCHANGED <<stream, tracks, live, stopDisabled, logged, nStops>>
    /\ UNCHANGED lazyVars

\* Variant of StopTracks that stops getTracks()[0] only.
StopTracks_FirstOnly(s) == live' = live \ {<<s, 1>>}

\* stream.getTracks().forEach(track => track.stop())
StopTracks(s) == live' = live \ TracksOf(s)

\* Variant of StopClick that disables the stop control again.
StopClick_Disables ==
    /\ ~stopDisabled
    /\ nStops < MaxStops
    /\ nStops' = nStops + 1
    /\ IF stream = Undefined
         THEN /\ uncaught' = Append(uncaught, "TypeError")
              /\ UNCHANGED <<live, logged>>
         ELSE /\ StopTracks(stream)
              /\ Log(NotUsedMsg)
              /\ UNCHANGED uncaught
    /\ stopDisabled' = TRUE
    /\ UNCHANGED <<stream, tracks, starts>>
    /\ UNCHANGED lazyVars

\* A click on the stop control, which dispatches none while disabled.  With
\* `stream` undefined, `stream.getTracks()` throws a TypeError before log().
StopClick ==
    /\ ~stopDisabled
    /\ nStops < MaxStops
    /\ nStops' = nStops + 1
    /\ IF stream = Undefined
         THEN /\ uncaught' = Append(uncaught, "TypeError")
              /\ UNCHANGED <<live, logged>>
         ELSE /\ StopTracks(stream)
              /\ Log(NotUsedMsg)
              /\ UNCHANGED uncaught
    /\ UNCHANGED <<stream, tracks, stopDisabled, starts>>
    /\ UNCHANGED lazyVars

Next ==
    \/ StartClick
    \/ \E i \in DOMAIN starts : \E n \in 1..MaxTracks : GetUserMediaResolve(i, n)
    \/ \E i \in DOMAIN starts : \E e \in GetUserMediaErrors : GetUserMediaReject(i, e)
    \/ \E i \in DOMAIN starts : AddModuleResolve(i)
    \/ \E i \in DOMAIN starts : AddModuleReject(i)
    \/ StopClick

Spec == Init /\ [][Next]_vars

(***************************************************************************)
(* The lazy-loading article: two snippets, each the script of its own      *)
(* page.  On DOMContentLoaded the script collects the lazy elements and,   *)
(* if IntersectionObserver is available, observes them; the observer's     *)
(* callback handles the entries the browser delivers.  The browser queues  *)
(* an entry for an observed element when what it last queued about it (at  *)
(* first nothing) differs from whether the element intersects the viewport,*)
(* and delivers the queued entries to the callback in one call.            *)
(***************************************************************************)

\* The user scrolls, or the layout changes: element e enters or leaves the
\* viewport.
Scroll(e) ==
    /\ inView' = [inView EXCEPT ![e] = ~@]
    /\ UNCHANGED <<ioAvailable, domLoaded, observed, reported, queue, imgs, visible>>
    /\ UNCHANGED micVars

Where(e) == IF inView[e] THEN "in" ELSE "out"

\* The observer notices observed element e: it queues an entry for it.
Notice(e) ==
    /\ e \in observed
    /\ reported[e] # Where(e)
    /\ Len(queue) < MaxQueue
    /\ queue' = Append(queue, [target |-> e, isIntersecting |-> inView[e]])
    /\ reported' = [reported EXCEPT ![e] = Where(e)]
    /\ UNCHANGED <<ioAvailable, domLoaded, inView, observed, imgs, visible>>
    /\ UNCHANGED micVars

\* The DOMContentLoaded listener of the image snippet: every img.lazy is
\* observed, if IntersectionObserver is available.
LazyImagesLoaded ==
    /\ ~domLoaded
    /\ domLoaded' = TRUE
    /\ observed' = IF ioAvailable
                     THEN observed \cup {e \in Elements : imgs[e].lazy}
                     ELSE observed
    /\ UNCHANGED <<ioAvailable, inView, reported, queue, imgs, visible>>
    /\ UNCHANGED micVars

\* Variant of LazyImageEntry that swaps the image whatever the entry says.
LazyImageEntry_NoCheck(entry, st) ==
    [imgs |-> [st.imgs EXCEPT ![entry.target] =
                  [lazy |-> FALSE, src |-> DataSrc, srcset |-> DataSrcset]],
     observed |-> st.observed \ {entry.target}]

\* Variant of LazyImageEntry that leaves the class lazy on the image.
LazyImageEntry_KeepsClass(entry, st) ==
    IF entry.isIntersecting
      THEN [imgs |-> [st.imgs EXCEPT ![entry.target] =
                         [lazy |-> @.lazy, src |-> DataSrc, srcset |-> DataSrcset]],
            observed |-> st.observed \ {entry.target}]
      ELSE st

\* The body of the image callback's forEach, on the page state st: for an
\* intersecting entry, src and srcset are set from data-src and data-srcset,
\* the class lazy is removed and the image is unobserved.
LazyImageEntry(entry, st) ==
    IF entry.isIntersecting
      THEN [imgs |-> [st.imgs EXCEPT ![entry.target] =
                         [lazy |-> FALSE, src |-> DataSrc, srcset |-> DataSrcset]],
            observed |-> st.observed \ {entry.target}]
      ELSE st

\* entries.forEach of the image callback.
RECURSIVE LazyImageCallback(_, _)
LazyImageCallback(entries, st) ==
    IF entries = <<>>
      THEN st
      ELSE LazyImageCallback(Tail(entries), LazyImageEntry(Head(entries), st))

\* The browser delivers the queued entries to the image callback.
LazyImagesDeliver ==
    /\ queue # <<>>
    /\ LET st == LazyImageCallback(queue, [imgs |-> imgs, observed |-> observed]) IN
        /\ imgs' = st.imgs
        /\ observed' = st.observed
    /\ queue' = <<>>
    /\ UNCHANGED <<ioAvailable, domLoaded, inView, reported, visible>>
    /\ UNCHANGED micVars

LazyImagesNext ==
    \/ \E e \in Elements : Scroll(e)
    \/ \E e \in Elements : Notice(e)
    \/ LazyImagesLoaded
    \/ LazyImagesDeliver

LazyImagesInit == ControllerInit /\ PageInit

LazyImagesSpec == LazyImagesInit /\ [][LazyImagesNext]_vars

\* The DOMContentLoaded listener of the background snippet: every
\* .lazy-background is observed, if IntersectionObserver is available.
LazyBackgroundsLoaded ==
    /\ ~domLoaded
    /\ domLoaded' = TRUE
    /\ observed' = IF ioAvailable THEN observed \cup Elements ELSE observed
    /\ UNCHANGED <<ioAvailable, inView, reported, queue, imgs, visible>>
    /\ UNCHANGED micVars

\* Variant of LazyBackgroundEntry that keeps observing the element.
LazyBackgroundEntry_KeepsObserving(entry, st) ==
    IF entry.isIntersecting
      THEN [visible |-> st.visible \cup {entry.target},
            observed |-> st.observed]
      ELSE st

\* The body of the background callback's forEach, on the page state st: for
\* an intersecting entry, the class visible is added and the element is
\* unobserved.
LazyBackgroundEntry(entry, st) ==
    IF entry.isIntersecting
      THEN [visible |-> st.visible \cup {entry.target},
            observed |-> st.observed \ {entry.target}]
      ELSE st

\* entries.forEach of the background callback.
RECURSIVE LazyBackgroundCallback(_, _)
LazyBackgroundCallback(entries, st) ==
    IF entries = <<>>
      THEN st
      ELSE LazyBackgroundCallback(Tail(entries),
                                  LazyBackgroundEntry(Head(entries), st))

\* The browser delivers the queued entries to the background callback.
LazyBackgroundsDeliver ==
    /\ queue # <<>>
    /\ LET st == LazyBackgroundCallback(queue,
                    [visible |-> visible, observed |-> observed]) IN
        /\ visible' = st.visible
        /\ observed' = st.observed
    /\ queue' = <<>>
    /\ UNCHANGED <<ioAvailable, domLoaded, inView, reported, imgs>>
    /\ UNCHANGED micVars

LazyBackgroundsNext ==
    \/ \E e \in Elements : Scroll(e)
    \/ \E e \in Elements : Notice(e)
    \/ LazyBackgroundsLoaded
    \/ LazyBackgroundsDeliver

LazyBackgroundsInit == ControllerInit /\ PageInit

\* The browser delivers queued entries: a queued callback task is run.
LazyBackgroundsSpec ==
    /\ LazyBackgroundsInit
    /\ [][LazyBackgroundsNext]_vars
    /\ WF_vars(LazyBackgroundsDeliver)

(***************************************************************************)
(* Vocabulary of the properties.                                           *)
(***************************************************************************)

\* Idle: no capture, no track of any stream is live.
Idle == live = {}

\* Invocation i holds a capture: the tracks of its stream are live and its
\* graph is connected.
CapturingBy(i) ==
    /\ starts[i].source # Undefined
    /\ TracksOf(starts[i].source) \subseteq live
    /\ starts[i].connected

\* Capturing: the tracks of the stream `stream` refers to are live and the
\* graph on that stream is connected.
Capturing ==
    /\ stream # Undefined
    /\ \E i \in DOMAIN starts : starts[i].source = stream /\ CapturingBy(i)

Ended(i) == starts[i].pc \in {"done", "failed"}
InFlight == \E i \in DOMAIN starts : ~Ended(i)

\* This step ends invocation i.
Ends(i) == ~Ended(i) /\ starts'[i].pc \in {"done", "failed"}

\* This step is a click on the stop control.
StopStep == nStops' = nStops + 1

Count(seq, m) == Cardinality({k \in DOMAIN seq : seq[k] = m})

(***************************************************************************)
(* C1.  A Start clicked in Idle whose permission request is granted.       *)
(***************************************************************************)

C2_DeniedStartEndsIdleDisabled ==
    [][\A i \in DOMAIN starts :
          (Ends(i) /\ starts[i].idleAtClick /\ starts'[i].err = "PermissionDenied")
             => Idle' /\ stopDisabled']_vars

\* C2 amended: a denied Start ends without touching the stream reference,
\* the live tracks or the stop control: the state is Idle after it exactly
\* when it was Idle just before the denial, and the stop control is disabled
\* after it exactly when it was disabled before (so always on a first
\* Start, and never once an earlier Start has enabled it).
C2_DeniedStartChangesNothing ==
    [][\A i \in DOMAIN starts :
          (Ends(i) /\ starts'[i].err = "PermissionDenied")
             => /\ stream' = stream
                /\ live' = live
                /\ stopDisabled' = stopDisabled
                /\ (Idle' <=> Idle)]_vars

\* A Start clicked in Idle after an earlier Start and a Stop has been denied:
\* the state is Idle and the stop control is still enabled.
C2_Witness ==
    \E i \in DOMAIN starts :
        /\ i > 1
        /\ starts[i].idleAtClick
        /\ starts[i].err = "PermissionDenied"
        /\ starts[i].before.nStops >= 1
        /\ Idle
        /\ ~stopDisabled

(***************************************************************************)
(* C3.  Stop in Capturing.                                                 *)
(***************************************************************************)

\* C3: a Stop handled in Capturing leaves the state Idle, with every track
\* of the current stream stopped.
C3_StopInCapturingEndsIdle ==
    [][(StopStep /\ Capturing)
          => Idle' /\ TracksOf(stream) \cap live' = {}]_vars

(***************************************************************************)
(* C4.  Stop in Idle.                                                      *)
(***************************************************************************)

\* C4: a Stop handled in Idle is reported as an error: it throws, and logs
\* no "not used anymore" message.
C4_StopInIdleIsReported ==
    [][(StopStep /\ Idle)
          => /\ Len(uncaught') = Len(uncaught) + 1
             /\ logged' = logged]_vars

(***************************************************************************)
(* C5.  Two Starts with no Stop between them.                              *)
(***************************************************************************)

\* C5: every live track belongs to the stream the shared reference holds.
C5_LiveTracksAreReferenced ==
    \A tr \in live : tr[1] = stream

(***************************************************************************)
(* C6.  One successful Start followed by one Stop.                         *)
(***************************************************************************)

\* The run so far is one Start, which succeeded, and one Stop.
OneStartThenOneStop ==
    /\ Len(starts) = 1
    /\ starts[1].pc = "done"
    /\ nStops = 1

\* C6: after one Start that succeeds and one Stop, the messages logged are
\* exactly "...is being used." then "...is not used anymore.", and no track is
\* live.
C6_StartStopScenario ==
    OneStartThenOneStop => /\ logged = <<UsedMsg, NotUsedMsg>>
                           /\ Idle

\* The scenario has run, on a stream of more than one track.
C6_Witness ==
    /\ OneStartThenOneStop
    /\ tracks[starts[1].source] > 1
    /\ logged = <<UsedMsg, NotUsedMsg>>

(***************************************************************************)
(* C7.  The graph is connected after both suspension points.               *)
(***************************************************************************)

\* C7: the graph of a Start is connected only once its permission request
\* has been granted and its processing module has loaded.
C7_ConnectedOnlyAfterGrantAndLoad ==
    \A i \in DOMAIN starts :
        starts[i].connected
           => starts[i].permission = "granted" /\ starts[i].module = "loaded"

\* One Start is suspended at the module load, granted but not connected,
\* while another has connected its graph.
C7_Witness ==
    \E i, j \in DOMAIN starts :
        /\ starts[i].pc = "addModule" /\ ~starts[i].connected
        /\ starts[j].connected

(***************************************************************************)
(* C8.  A Start ends connected or failed.                                  *)
(***************************************************************************)

\* C8: a Start that has ended either has its graph connected, with the stop
\* control enabled and its status message logged, or ended with the failure
\* of its permission request or of its module load.
C8_EndedStartIsConnectedOrFailed ==
    /\ \A i \in DOMAIN starts :
          Ended(i) =>
             \/ /\ starts[i].pc = "done"
                /\ starts[i].connected
                /\ ~stopDisabled
             \/ /\ starts[i].pc = "failed"
                /\ ~starts[i].connected
                /\ \/ /\ starts[i].permission = "rejected"
                      /\ starts[i].err \in GetUserMediaErrors
                   \/ /\ starts[i].module = "failed"
                      /\ starts[i].err = ModuleLoadFailure
    /\ Count(logged, UsedMsg)
          >= Cardinality({i \in DOMAIN starts : starts[i].pc = "done"})

\* One Start has ended connected and another has ended with a failure.
C8_Witness ==
    \E i, j \in DOMAIN starts :
        /\ starts[i].pc = "done" /\ starts[i].connected
        /\ starts[j].pc = "failed"

(***************************************************************************)
(* C9.  Two states.                                                        *)
(***************************************************************************)

\* C9: with no Start in flight the controller is Idle or Capturing, and no
\* track is live without a connected graph on its stream.
C9_QuiescentIsIdleOrCapturing ==
    ~InFlight =>
       /\ Idle \/ Capturing
       /\ \A tr \in live :
             \E i \in DOMAIN starts :
                starts[i].source = tr[1] /\ starts[i].connected

(***************************************************************************)
(* C10.  A failed Start changes nothing.                                   *)
(***************************************************************************)

\* C10: when a Start ends with a failure, the stream reference, the live
\* tracks, the stop control's flag and the messages logged are as they were
\* when that Start was clicked.
C10_FailedStartChangesNothing ==
    [][\A i \in DOMAIN starts :
          (Ends(i) /\ starts'[i].pc = "failed")
             => /\ stream' = starts[i].before.stream
                /\ live' = starts[i].before.live
                /\ stopDisabled' = starts[i].before.stopDisabled
                /\ logged' = starts[i].before.logged]_vars

(***************************************************************************)
(* C11.  The lazy-image snippet.                                           *)
(***************************************************************************)

\* The queue holds an entry that reports element e intersecting.
ReportedIntersecting(e) ==
    \E k \in DOMAIN queue : queue[k].target = e /\ queue[k].isIntersecting

\* C11: with IntersectionObserver available, once the images are found
\* (a) an image is observed iff it has the class lazy iff its src is the
\* placeholder; (b) src and srcset change only in a callback that is given an
\* entry reporting the image intersecting, and then to data-src and
\* data-srcset; (c) an image that was swapped never changes again.
C11_LazyImageSwappedOnceWhenIntersecting ==
    /\ [](ioAvailable /\ domLoaded =>
            \A e \in Elements :
               /\ e \in observed <=> imgs[e].lazy
               /\ imgs[e].lazy <=> imgs[e].src = Placeholder)
    /\ [][\A e \in Elements :
             (imgs'[e].src # imgs[e].src \/ imgs'[e].srcset # imgs[e].srcset)
                => /\ ReportedIntersecting(e)
                   /\ queue' = <<>>
                   /\ imgs'[e].src = DataSrc
                   /\ imgs'[e].srcset = DataSrcset]_vars
    /\ [][\A e \in Elements :
             imgs[e].src # Placeholder => imgs'[e] = imgs[e]]_vars

\* One image has been swapped and is no longer observed, while another was
\* reported outside the viewport and keeps its placeholder.
C11_Witness ==
    /\ ioAvailable /\ domLoaded
    /\ \E e, f \in Elements :
          /\ imgs[e] = [lazy |-> FALSE, src |-> DataSrc, srcset |-> DataSrcset]
          /\ e \notin observed
          /\ reported[f] = "out" /\ queue = <<>>
          /\ imgs[f] = LazyImageMarkup
          /\ f \in observed

(***************************************************************************)
(* C12.  The lazy-background snippet.                                      *)
(***************************************************************************)

\* C12: with callbacks delivered fairly, (a) an element reported in the
\* viewport eventually has the class visible; (b) the class is added only in
\* a callback that is given an entry reporting the element intersecting, and
\* the element is unobserved in that same step; (c) the class is never
\* removed.
C12_LazyBackgroundBecomesVisible ==
    /\ \A e \in Elements : ReportedIntersecting(e) ~> (e \in visible)
    /\ [][\A e \in Elements :
             (e \notin visible /\ e \in visible')
                => /\ ReportedIntersecting(e)
                   /\ queue' = <<>>
                   /\ e \notin observed']_vars
    /\ [][visible \subseteq visible']_vars

\* One background has the class visible and is no longer observed, while
\* another was reported outside the viewport and has not.
C12_Witness ==
    /\ ioAvailable /\ domLoaded
    /\ \E e, f \in Elements :
          /\ e \in visible /\ e \notin observed
          /\ reported[f] = "out" /\ queue = <<>>
          /\ f \notin visible /\ f \in observed

(***************************************************************************)
(* C13.  Only Stop ends a capture.                                         *)
(***************************************************************************)

\* C13: a live track stays live across every step except a Stop handled
\* while `stream` refers to the stream that owns it.
C13_OnlyStopEndsATrack ==
    [][\A tr \in live :
          tr \in live' \/ (StopStep /\ stream = tr[1])]_vars

\* The tracks of one Start's stream are live although another Start has
\* ended with a failure after them.
C13_Witness ==
    \E i, j \in DOMAIN starts :
        /\ i # j
        /\ starts[i].source # Undefined
        /\ TracksOf(starts[i].source) \subseteq live
        /\ starts[j].pc = "failed"

(***************************************************************************)
(* C14.  The last status message agrees with the microphone.               *)
(***************************************************************************)

\* C14: with no Start in flight, a last message "...is being used." means
\* Capturing, and a last message "...is not used anymore." means Idle.
C14_LastMessageAgrees ==
    (~InFlight /\ logged # <<>>) =>
        /\ logged[Len(logged)] = UsedMsg => Capturing
        /\ logged[Len(logged)] = NotUsedMsg => Idle

(***************************************************************************)
(* C15.  An enabled stop control has a stream to stop.                     *)
(***************************************************************************)

\* C15: whenever the stop control is enabled, `stream` holds a stream, and
\* no Stop has thrown a TypeError.
C15_EnabledStopHasStream ==
    /\ ~stopDisabled => stream # Undefined
    /\ \A k \in DOMAIN uncaught : uncaught[k] # "TypeError"

\* A Stop has been handled while a Start was in flight.
C15_Witness ==
    /\ ~stopDisabled
    /\ nStops >= 1
    /\ InFlight
    /\ Count(logged, NotUsedMsg) = nStops

(***************************************************************************)
(* C16.  The stop control is never disabled again.                         *)
(***************************************************************************)

\* C16: once enabled, the stop control stays enabled across every step.
C16_StopControlStaysEnabled ==
    [][~stopDisabled => ~stopDisabled']_vars

\* The stop control is enabled in Idle, after a Stop and a later failed Start.
C16_Witness ==
    /\ ~stopDisabled
    /\ Idle
    /\ \E i \in DOMAIN starts :
          starts[i].pc = "failed" /\ starts[i].before.nStops >= 1

====
